---- MODULE Spec2Model ----
(***************************************************************************)
(* Model of the crawl engine (package crawl): one Crawler, its Run call,   *)
(* the dispatcher goroutine, the worker goroutines and processURL.         *)
(***************************************************************************)
EXTENDS Integers, Sequences, FiniteSets, Bags, TLC

\* ---------------------------------------------------------------- bounds
\* largest config.WorkerCount explored
MaxWorkers == 2
\* largest number of items a producer yields within the explored prefix
MaxURLs == 3

\* ------------------------------------------------------ program constants
\* urlChan := make(chan string, c.config.WorkerCount*2)
QueueFactor == 2

VARIABLES
    token,          \* the caller's context: "live", or "canceled" once it is
                    \* done (cancelled or past its deadline)
    runState,       \* "constructed", "running", "returned"
    runErr,         \* value returned by Run ("unset" before it returns)
    workerCount,    \* c.config.WorkerCount
    urlGen,         \* the producer handed to Run
    pulled,         \* number of items the dispatcher has pulled from urlGen
    dpc,            \* dispatcher goroutine: "idle", "range", "select", "done"
    urlChan,        \* buffered contents of urlChan (item numbers, FIFO)
    chanClosed,     \* number of close(urlChan) calls
    workers,        \* the worker goroutines: a bag of their local states
    taken,          \* per item: how often a worker received it
    builderCalls,   \* RequestBuilder invocations
    requestCount,   \* requests handed to the transport
    handledCount,   \* ResponseHandler invocations
    errorCount,     \* ErrorHandler invocations
    processed,      \* processURL calls that returned
    failures,       \* failures so far, per kind
    given,          \* the Config the latest New was called with
    caller,         \* the caller's Config and the objects it points to, after that New
    crawler,        \* the Crawler made by the latest New
    newCalls,       \* calls of New
    emptyUACalls,   \* calls of New with an empty Config.UserAgent
    apiCalls,       \* requests made to the user-agent API
    idFetch,        \* what fetchUserAgent met in the latest New
    runs,           \* calls of Run on the latest Crawler
    built,          \* header of the request the builder returned last
    sent,           \* header of the request handed to the client last
    fpc,            \* one c.client.Do(req): position of the fetch
    via,            \* hosts of the requests made so far in the fetch
    req,            \* host of the request about to be made
    resp,           \* the response received last in the fetch
    checks          \* the CheckRedirect calls of the fetch, with results

\* the state of one Run
runVars == <<token, runState, runErr, workerCount, urlGen, pulled, dpc, urlChan,
             chanClosed, workers, taken, builderCalls, requestCount,
             handledCount, errorCount, processed, failures>>

\* the engine and the request pipeline
engineVars == <<given, caller, crawler, newCalls, emptyUACalls, apiCalls, idFetch, runs,
                built, sent>>

\* one fetch through the client
fetchVars == <<fpc, via, req, resp, checks>>

vars == <<runVars, engineVars, fetchVars>>

\* ----------------------------------------------------------------- inputs
\* producers: a finite one yielding len items, or one that never ends
Producers ==
    {[len |-> k, infinite |-> FALSE] : k \in 0..MaxURLs}
    \cup {[len |-> 0, infinite |-> TRUE]}

NoGen == [len |-> 0, infinite |-> FALSE]

\* the producer has a further item to yield
HasNext == urlGen.infinite \/ pulled < urlGen.len

FailureKinds == {"build", "transport", "handler", "release"}

\* ctx.Err(): nil, or the error of the done context
CtxErr == IF token = "live" THEN "nil" ELSE token

\* ctx.Done() is ready
CtxDone == token # "live"

\* variant of QueueCap: make(chan string, c.config.WorkerCount*3)
QueueCapTriple == workerCount * 3

\* cap(urlChan)
QueueCap == workerCount * QueueFactor

\* ----------------------------------------------------- worker local state
\* a worker goroutine: its position, the url it was handed and the calls
\* processURL has made for that url so far
Local(pc, url, calls) == [pc |-> pc, url |-> url, calls |-> calls]

AtSelect == Local("select", 0, <<>>)

Exited == Local("exited", 0, <<>>)

\* the local states of the running workers
Workers == BagToSet(workers)

\* one worker in local state s moves to local state t
Move(s, t) == (workers (-) SetToBag({s})) (+) SetToBag({t})

\* number of workers at position pc
NumAt(pc) ==
    LET at == {s \in Workers : s.pc = pc}
        RECURSIVE Sum(_)
        Sum(S) == IF S = {} THEN 0
                  ELSE LET x == CHOOSE y \in S : TRUE
                       IN  CopiesIn(x, workers) + Sum(S \ {x})
    IN  Sum(at)

\* a call made by processURL for url: op is "build", "send", "handle" or
\* "release" and err the error the call returned ("nil": none); or op is
\* "error", the call of the error handler, and err the error passed to it
Ev(op, url, err) == <<op, url, err>>

\* ---------------------------------------------------------------- strings
\* a string is a sequence of symbols: "Chrome/" stands for those seven
\* characters, " " for a white-space character, "x" and the like for text
\* without digits, dots or white space, <<>> is the empty string
Digits == {"1", "2", "4"}

\* const defaultUserAgent
defaultUserAgent ==
    <<"Mozilla/5.0", " ", "Chrome/", "1", "4", "4", ".", "0", " ", "Safari/537.36">>

\* strings.TrimSpace
TrimSpace(s) ==
    LET text == {i \in DOMAIN s : s[i] # " "}
    IN  IF text = {} THEN <<>>
        ELSE SubSeq(s, CHOOSE i \in text : \A j \in text : i <= j,
                       CHOOSE i \in text : \A j \in text : j <= i)

\* the digits of s from position i on, up to the first symbol that is no digit
DigitRun(s, i) ==
    LET stop == {j \in i..Len(s) : s[j] \notin Digits} \cup {Len(s) + 1}
    IN  SubSeq(s, i, (CHOOSE j \in stop : \A k \in stop : j <= k) - 1)

\* variant of extractChromeVersion: the rightmost match is taken
extractChromeVersionLast(userAgent) ==
    LET matches == {i \in DOMAIN userAgent :
                       /\ userAgent[i] = "Chrome/"
                       /\ DigitRun(userAgent, i + 1) # <<>>
                       /\ i + Len(DigitRun(userAgent, i + 1)) + 1 <= Len(userAgent)
                       /\ userAgent[i + Len(DigitRun(userAgent, i + 1)) + 1] = "."}
    IN  IF matches # {}
        THEN DigitRun(userAgent, (CHOOSE i \in matches : \A j \in matches : j <= i) + 1)
        ELSE <<"1", "4", "4">>

\* regexp `Chrome/(\d+)\.`, leftmost match: the submatch, or "144"
extractChromeVersion(userAgent) ==
    LET matches == {i \in DOMAIN userAgent :
                       /\ userAgent[i] = "Chrome/"
                       /\ DigitRun(userAgent, i + 1) # <<>>
                       /\ i + Len(DigitRun(userAgent, i + 1)) + 1 <= Len(userAgent)
                       /\ userAgent[i + Len(DigitRun(userAgent, i + 1)) + 1] = "."}
    IN  IF matches # {}
        THEN DigitRun(userAgent, (CHOOSE i \in matches : \A j \in matches : i <= j) + 1)
        ELSE <<"1", "4", "4">>

\* fmt.Sprintf(`"Chromium";v="%s", "Google Chrome";v="%s", "Not_A Brand";v="99"`,
\*             version, version)
generateSecChUa(userAgent) ==
    LET version == extractChromeVersion(userAgent)
    IN  <<"\"Chromium\";v=\"">> \o version \o <<"\", \"Google Chrome\";v=\"">>
            \o version \o <<"\", \"Not_A Brand\";v=\"99\"">>

\* ---------------------------------------------------------------- headers
\* the headers processURL fills in when the builder left them empty, in the
\* order of the code
BrowserHeaders ==
    <<"Accept", "Accept-Language", "Cache-Control", "Pragma", "Priority",
      "Referer", "Sec-Ch-Ua", "Sec-Ch-Ua-Mobile", "Sec-Ch-Ua-Platform",
      "Sec-Fetch-Dest", "Sec-Fetch-Mode", "Sec-Fetch-Site", "Sec-Fetch-User",
      "Upgrade-Insecure-Requests">>

HeaderNames == {"User-Agent"} \cup {BrowserHeaders[i] : i \in DOMAIN BrowserHeaders}

\* the value processURL passes to setHeaderIfNotExists for key
HeaderValue(c, key) ==
    CASE key = "Accept" -> <<"text/html,application/xhtml+xml,application/xml;q=0.9,image/avif,image/webp,image/apng,*/*;q=0.8,application/signed-exchange;v=b3;q=0.7">>
      [] key = "Accept-Language" -> <<"en-GB,en-US;q=0.9,en;q=0.8,nl;q=0.7,sv;q=0.6">>
      [] key = "Cache-Control" -> <<"no-cache">>
      [] key = "Pragma" -> <<"no-cache">>
      [] key = "Priority" -> <<"u=0, i">>
      [] key = "Referer" -> <<"https://www.google.com/">>
      [] key = "Sec-Ch-Ua" -> c.secChUa
      [] key = "Sec-Ch-Ua-Mobile" -> <<"?0">>
      [] key = "Sec-Ch-Ua-Platform" -> <<"\"macOS\"">>
      [] key = "Sec-Fetch-Dest" -> <<"document">>
      [] key = "Sec-Fetch-Mode" -> <<"navigate">>
      [] key = "Sec-Fetch-Site" -> <<"same-origin">>
      [] key = "Sec-Fetch-User" -> <<"?1">>
      [] key = "Upgrade-Insecure-Requests" -> <<"1">>

\* a request header: the value of each name that is set; Header{}
NoHeader == <<>>

\* req.Header.Get(key): the empty string when the header is not set
Get(header, key) == IF key \in DOMAIN header THEN header[key] ELSE <<>>

\* req.Header.Set(key, value)
Set(header, key, value) ==
    [k \in DOMAIN header \cup {key} |-> IF k = key THEN value ELSE header[k]]

\* variant of setHeaderIfNotExists: the header is set whatever the builder set
setHeaderAlways(header, key, value) == Set(header, key, value)

\* setHeaderIfNotExists := func(key, value string)
setHeaderIfNotExists(header, key, value) ==
    IF Get(header, key) = <<>> THEN Set(header, key, value) ELSE header

\* processURL between the builder and c.client.Do: the User-Agent is
\* overwritten, then the browser headers are filled in one after the other
SetHeaders(c, header) ==
    LET RECURSIVE FillIn(_, _)
        FillIn(h, i) ==
            IF i > Len(BrowserHeaders) THEN h
            ELSE FillIn(setHeaderIfNotExists(h, BrowserHeaders[i],
                                             HeaderValue(c, BrowserHeaders[i])), i + 1)
    IN  FillIn(Set(header, "User-Agent", c.userAgent), 1)

\* ------------------------------------------------------- redirect policies
\* http.ErrUseLastResponse
ErrUseLastResponse == "ErrUseLastResponse"

\* const defaultMaxRedirects
defaultMaxRedirects == 3

\* the chain length at which SameDomainRedirectionPolicy stops
SameDomainMaxRedirects == 3

\* a RedirectionPolicy value: no function (nil), one of the two stock
\* policies, or a function of the caller's own, named by where it was given
NoPolicy == [fn |-> "nil", maxRedirects |-> 0]

DefaultPolicy(maxRedirects) ==
    [fn |-> "DefaultRedirectionPolicy", maxRedirects |-> maxRedirects]

SameDomainPolicy == [fn |-> "SameDomainRedirectionPolicy", maxRedirects |-> 0]

CallerPolicy(givenAs) == [fn |-> givenAs, maxRedirects |-> 0]

\* ------------------------------------------------------ config and crawler
\* config.WorkerCount = 10
defaultWorkerCount == 10

\* a callback of the Config: "nil", one of the defaults of handlers.go, or
\* "caller", a function of the caller's own
DefaultRequestBuilder == "DefaultRequestBuilder"

DefaultResponseHandler == "DefaultResponseHandler"

NoopErrorHandler == "NoopErrorHandler"

\* a *tls.Config: whether the pointer is set, and its InsecureSkipVerify
NoTLSConfig == [set |-> FALSE, InsecureSkipVerify |-> FALSE]

\* &tls.Config{}
EmptyTLSConfig == [set |-> TRUE, InsecureSkipVerify |-> FALSE]

\* &tls.Config{InsecureSkipVerify: true}
InsecureTLSConfig == [set |-> TRUE, InsecureSkipVerify |-> TRUE]

\* an http.RoundTripper value: nil, an *http.Transport, or a round-tripper of
\* another type; TLSClientConfig is the configuration its connections are
\* made with (for another type: the one it keeps inside, out of New's reach)
NoTransport == [type |-> "nil", TLSClientConfig |-> NoTLSConfig]

HttpTransport(tlsConfig) == [type |-> "*http.Transport", TLSClientConfig |-> tlsConfig]

CustomRoundTripper(tlsConfig) == [type |-> "custom", TLSClientConfig |-> tlsConfig]

\* an http.Client value: whether the pointer is set, its CheckRedirect and
\* its Transport
NoClient == [set |-> FALSE, CheckRedirect |-> NoPolicy, Transport |-> NoTransport]

\* &http.Client{}
EmptyClient == [set |-> TRUE, CheckRedirect |-> NoPolicy, Transport |-> NoTransport]

\* Config{}
NoConfig ==
    [WorkerCount |-> 0, RequestBuilder |-> "nil", ResponseHandler |-> "nil",
     ErrorHandler |-> "nil", UserAgent |-> <<>>, RedirectionPolicy |-> NoPolicy,
     Client |-> NoClient]

\* Crawler{}
NoCrawler == [config |-> NoConfig, userAgent |-> <<>>, secChUa |-> <<>>,
              client |-> NoClient]

\* what fetchUserAgent met: the error of the failing call ("nil": none), the
\* status of the response and the body read; NotFetched: it was not called
NotFetched == [err |-> "not fetched", status |-> 0, body |-> <<>>]

\* no New yet, no request prepared
BeforeNew ==
    /\ given = NoConfig
    /\ caller = NoConfig
    /\ crawler = NoCrawler
    /\ newCalls = 0
    /\ emptyUACalls = 0
    /\ apiCalls = 0
    /\ idFetch = NotFetched
    /\ runs = 0
    /\ built = NoHeader
    /\ sent = NoHeader

\* no fetch under way
FetchIdle ==
    /\ fpc = "idle"
    /\ via = <<>>
    /\ req = <<>>
    /\ resp = "none"
    /\ checks = <<>>

\* ------------------------------------------------------------------- Init
Init ==
    /\ token = "live"
    /\ runState = "constructed"
    /\ runErr = "unset"
    /\ workerCount \in 1..MaxWorkers
    /\ urlGen = NoGen
    /\ pulled = 0
    /\ dpc = "idle"
    /\ urlChan = <<>>
    /\ chanClosed = 0
    /\ workers = EmptyBag
    /\ taken = [i \in 1..MaxURLs |-> 0]
    /\ builderCalls = 0
    /\ requestCount = 0
    /\ handledCount = 0
    /\ errorCount = 0
    /\ processed = 0
    /\ failures = [k \in FailureKinds |-> 0]
    /\ BeforeNew
    /\ FetchIdle

\* ------------------------------------------------------------ environment
\* the caller cancels the token, or its deadline expires
Cancel ==
    /\ token = "live"
    /\ token' = "canceled"
    /\ UNCHANGED <<runState, runErr, workerCount, urlGen, pulled, dpc, urlChan,
                   chanClosed, workers, taken, builderCalls, requestCount,
                   handledCount, errorCount, processed, failures>>
    /\ UNCHANGED <<engineVars, fetchVars>>

\* -------------------------------------------------------------------- Run
\* variant of RunStart: the loop that starts the workers runs once more
\* (i <= c.config.WorkerCount)
RunStartExtraWorker ==
    /\ runState = "constructed"
    /\ \E g \in Producers : urlGen' = g
    /\ runState' = "running"
    /\ urlChan' = <<>>
    /\ workers' = [s \in {AtSelect} |-> workerCount + 1]
    /\ dpc' = "range"
    /\ UNCHANGED <<token, runErr, workerCount, pulled, chanClosed, taken,
                   builderCalls, requestCount, handledCount, errorCount,
                   processed, failures>>
    /\ UNCHANGED <<engineVars, fetchVars>>

\* Run: make the channel, start the workers and the dispatcher
RunStart ==
    /\ runState = "constructed"
    /\ \E g \in Producers : urlGen' = g
    /\ runState' = "running"
    /\ urlChan' = <<>>
    /\ workers' = [s \in {AtSelect} |-> workerCount]
    /\ dpc' = "range"
    /\ UNCHANGED <<token, runErr, workerCount, pulled, chanClosed, taken,
                   builderCalls, requestCount, handledCount, errorCount,
                   processed, failures>>
    /\ UNCHANGED <<engineVars, fetchVars>>

\* variant of RunReturn: Run ends with "return nil"
RunReturnNil ==
    /\ runState = "running"
    /\ NumAt("exited") = workerCount
    /\ runState' = "returned"
    /\ runErr' = "nil"
    /\ UNCHANGED <<token, workerCount, urlGen, pulled, dpc, urlChan, chanClosed,
                   workers, taken, builderCalls, requestCount, handledCount,
                   errorCount, processed, failures>>
    /\ UNCHANGED <<engineVars, fetchVars>>

\* variant of RunReturn: Run waits for the first worker only
RunReturnFirstExit ==
    /\ runState = "running"
    /\ NumAt("exited") >= 1
    /\ runState' = "returned"
    /\ runErr' = CtxErr
    /\ UNCHANGED <<token, workerCount, urlGen, pulled, dpc, urlChan, chanClosed,
                   workers, taken, builderCalls, requestCount, handledCount,
                   errorCount, processed, failures>>
    /\ UNCHANGED <<engineVars, fetchVars>>

\* wg.Wait() returns once every worker has called wg.Done(); return ctx.Err()
RunReturn ==
    /\ runState = "running"
    /\ NumAt("exited") = workerCount
    /\ runState' = "returned"
    /\ runErr' = CtxErr
    /\ UNCHANGED <<token, workerCount, urlGen, pulled, dpc, urlChan, chanClosed,
                   workers, taken, builderCalls, requestCount, handledCount,
                   errorCount, processed, failures>>
    /\ UNCHANGED <<engineVars, fetchVars>>

\* ------------------------------------------------------------- dispatcher
\* for url := range urlGen: pull the next item, or leave the loop when the
\* producer is exhausted (the deferred close(urlChan) then runs)
DispatchRange ==
    /\ dpc = "range"
    /\ \/ /\ HasNext
          /\ pulled < MaxURLs
          /\ pulled' = pulled + 1
          /\ dpc' = "select"
          /\ UNCHANGED chanClosed
       \/ /\ ~HasNext
          /\ chanClosed' = chanClosed + 1
          /\ dpc' = "done"
          /\ UNCHANGED pulled
    /\ UNCHANGED <<token, runState, runErr, workerCount, urlGen, urlChan,
                   workers, taken, builderCalls, requestCount, handledCount,
                   errorCount, processed, failures>>
    /\ UNCHANGED <<engineVars, fetchVars>>

\* variant of DispatchSend: the send never waits for room in the buffer
DispatchSendUnbounded ==
    /\ dpc = "select"
    /\ urlChan' = Append(urlChan, pulled)
    /\ dpc' = "range"
    /\ UNCHANGED <<token, runState, runErr, workerCount, urlGen, pulled,
                   chanClosed, workers, taken, builderCalls, requestCount,
                   handledCount, errorCount, processed, failures>>
    /\ UNCHANGED <<engineVars, fetchVars>>

\* select { case urlChan <- url: }  (ready while the buffer has room)
DispatchSend ==
    /\ dpc = "select"
    /\ Len(urlChan) < QueueCap
    /\ urlChan' = Append(urlChan, pulled)
    /\ dpc' = "range"
    /\ UNCHANGED <<token, runState, runErr, workerCount, urlGen, pulled,
                   chanClosed, workers, taken, builderCalls, requestCount,
                   handledCount, errorCount, processed, failures>>
    /\ UNCHANGED <<engineVars, fetchVars>>

\* select { case <-ctx.Done(): return }  (the deferred close(urlChan) runs)
DispatchDone ==
    /\ dpc = "select"
    /\ CtxDone
    /\ chanClosed' = chanClosed + 1
    /\ dpc' = "done"
    /\ UNCHANGED <<token, runState, runErr, workerCount, urlGen, pulled,
                   urlChan, workers, taken, builderCalls, requestCount,
                   handledCount, errorCount, processed, failures>>
    /\ UNCHANGED <<engineVars, fetchVars>>

\* ----------------------------------------------------------------- worker
\* variant of WorkerRecv: the url is read from the queue but stays in it
WorkerRecvPeek(s) ==
    /\ s.pc = "select"
    /\ urlChan # <<>>
    /\ taken[Head(urlChan)] < 2
    /\ UNCHANGED urlChan
    /\ taken' = [taken EXCEPT ![Head(urlChan)] = @ + 1]
    /\ workers' = Move(s, Local("build", Head(urlChan), <<>>))
    /\ UNCHANGED <<token, runState, runErr, workerCount, urlGen, pulled, dpc,
                   chanClosed, builderCalls, requestCount, handledCount,
                   errorCount, processed, failures>>
    /\ UNCHANGED <<engineVars, fetchVars>>

\* select { case url, ok := <-urlChan: }  with ok: c.processURL(ctx, url)
WorkerRecv(s) ==
    /\ s.pc = "select"
    /\ urlChan # <<>>
    /\ urlChan' = Tail(urlChan)
    /\ taken' = [taken EXCEPT ![Head(urlChan)] = @ + 1]
    /\ workers' = Move(s, Local("build", Head(urlChan), <<>>))
    /\ UNCHANGED <<token, runState, runErr, workerCount, urlGen, pulled, dpc,
                   chanClosed, builderCalls, requestCount, handledCount,
                   errorCount, processed, failures>>
    /\ UNCHANGED <<engineVars, fetchVars>>

\* variant of WorkerClosed: the worker leaves as soon as the channel is closed,
\* whether or not items are still buffered
WorkerClosedEarly(s) ==
    /\ s.pc = "select"
    /\ chanClosed > 0
    /\ workers' = Move(s, Exited)
    /\ UNCHANGED <<token, runState, runErr, workerCount, urlGen, pulled, dpc,
                   urlChan, chanClosed, taken, builderCalls, requestCount,
                   handledCount, errorCount, processed, failures>>
    /\ UNCHANGED <<engineVars, fetchVars>>

\* select { case url, ok := <-urlChan: }  with !ok: return (wg.Done)
WorkerClosed(s) ==
    /\ s.pc = "select"
    /\ urlChan = <<>>
    /\ chanClosed > 0
    /\ workers' = Move(s, Exited)
    /\ UNCHANGED <<token, runState, runErr, workerCount, urlGen, pulled, dpc,
                   urlChan, chanClosed, taken, builderCalls, requestCount,
                   handledCount, errorCount, processed, failures>>
    /\ UNCHANGED <<engineVars, fetchVars>>

\* variant of WorkerCtxDone: the worker loop has no ctx.Done() case
WorkerCtxIgnored(s) ==
    /\ FALSE
    /\ s.pc = "select"
    /\ UNCHANGED vars

\* select { case <-ctx.Done(): return }  (wg.Done)
WorkerCtxDone(s) ==
    /\ s.pc = "select"
    /\ CtxDone
    /\ workers' = Move(s, Exited)
    /\ UNCHANGED <<token, runState, runErr, workerCount, urlGen, pulled, dpc,
                   urlChan, chanClosed, taken, builderCalls, requestCount,
                   handledCount, errorCount, processed, failures>>
    /\ UNCHANGED <<engineVars, fetchVars>>

\* ------------------------------------------------------------- processURL
\* c.config.ErrorHandler(url, err), added to the calls made for the url
Report(calls, url, err) == Append(calls, Ev("error", url, err))

\* a step of processURL by a worker in local state s: it makes the call op
\* and, when the call returns err, routes err to the error handler; the
\* worker goes on at position ok after success and at position ko after failure
Call(s, op, err, kind, ok, ko) ==
    LET calls == Append(s.calls, Ev(op, s.url, err))
    IN  IF err # "nil"
        THEN /\ workers' = Move(s, Local(ko, s.url, Report(calls, s.url, err)))
             /\ errorCount' = errorCount + 1
             /\ failures' = [failures EXCEPT ![kind] = @ + 1]
        ELSE /\ workers' = Move(s, Local(ok, s.url, calls))
             /\ UNCHANGED <<errorCount, failures>>

\* variant of Build: the "return" after reporting the build error is missing
BuildNoReturn(s) ==
    /\ s.pc = "build"
    /\ builderCalls' = builderCalls + 1
    /\ \E err \in {"nil", "build"} : Call(s, "build", err, "build", "send", "send")
    /\ UNCHANGED <<token, runState, runErr, workerCount, urlGen, pulled, dpc,
                   urlChan, chanClosed, taken, requestCount, handledCount,
                   processed>>
    /\ UNCHANGED <<engineVars, fetchVars>>

\* req, err := c.config.RequestBuilder(ctx, url); on error report and return
Build(s) ==
    /\ s.pc = "build"
    /\ builderCalls' = builderCalls + 1
    /\ \E err \in {"nil", "build"} : Call(s, "build", err, "build", "send", "return")
    /\ UNCHANGED <<token, runState, runErr, workerCount, urlGen, pulled, dpc,
                   urlChan, chanClosed, taken, requestCount, handledCount,
                   processed>>
    /\ UNCHANGED <<engineVars, fetchVars>>

\* what c.client.Do(req) can return: a response, a transport error, or, for a
\* request bound to a context that is done, that context's error
DoResults == {"nil", "transport"} \cup (IF CtxDone THEN {CtxErr} ELSE {})

\* variant of Send: the "return" after reporting the transport error is
\* missing, so the response handler runs all the same
SendNoReturn(s) ==
    /\ s.pc = "send"
    /\ requestCount' = requestCount + 1
    /\ \E err \in DoResults : Call(s, "send", err, "transport", "handle", "handle")
    /\ UNCHANGED <<token, runState, runErr, workerCount, urlGen, pulled, dpc,
                   urlChan, chanClosed, taken, builderCalls, handledCount,
                   processed>>
    /\ UNCHANGED <<engineVars, fetchVars>>

\* headers set, resp, err := c.client.Do(req); on error report and return
Send(s) ==
    /\ s.pc = "send"
    /\ requestCount' = requestCount + 1
    /\ \E err \in DoResults : Call(s, "send", err, "transport", "handle", "return")
    /\ UNCHANGED <<token, runState, runErr, workerCount, urlGen, pulled, dpc,
                   urlChan, chanClosed, taken, builderCalls, handledCount,
                   processed>>
    /\ UNCHANGED <<engineVars, fetchVars>>

\* variant of Handle: a failed response handler is called a second time
\* before its error is reported
HandleRetry(s) ==
    /\ s.pc = "handle"
    /\ \E herr \in {"nil", "handler"}, cerr \in {"nil", "release"} :
          LET first    == Append(s.calls, Ev("handle", s.url, herr))
              handled  == IF herr # "nil"
                          THEN Append(first, Ev("handle", s.url, herr)) ELSE first
              routed   == IF herr # "nil" THEN Report(handled, s.url, herr) ELSE handled
              released == Append(routed, Ev("release", s.url, cerr))
              calls    == IF cerr # "nil" THEN Report(released, s.url, cerr) ELSE released
              h        == IF herr # "nil" THEN 1 ELSE 0
              c        == IF cerr # "nil" THEN 1 ELSE 0
          IN  /\ workers' = Move(s, Local("return", s.url, calls))
              /\ handledCount' = handledCount + 1 + h
              /\ errorCount' = errorCount + h + c
              /\ failures' = [failures EXCEPT !["handler"] = @ + h, !["release"] = @ + c]
    /\ UNCHANGED <<token, runState, runErr, workerCount, urlGen, pulled, dpc,
                   urlChan, chanClosed, taken, builderCalls, requestCount,
                   processed>>
    /\ UNCHANGED <<engineVars, fetchVars>>

\* variant of Handle: the error of resp.Body.Close() is dropped
\* (defer resp.Body.Close())
HandleCloseUnchecked(s) ==
    /\ s.pc = "handle"
    /\ handledCount' = handledCount + 1
    /\ \E herr \in {"nil", "handler"}, cerr \in {"nil", "release"} :
          LET handled  == Append(s.calls, Ev("handle", s.url, herr))
              routed   == IF herr # "nil" THEN Report(handled, s.url, herr) ELSE handled
              calls    == Append(routed, Ev("release", s.url, cerr))
              h        == IF herr # "nil" THEN 1 ELSE 0
              c        == IF cerr # "nil" THEN 1 ELSE 0
          IN  /\ workers' = Move(s, Local("return", s.url, calls))
              /\ errorCount' = errorCount + h
              /\ failures' = [failures EXCEPT !["handler"] = @ + h, !["release"] = @ + c]
    /\ UNCHANGED <<token, runState, runErr, workerCount, urlGen, pulled, dpc,
                   urlChan, chanClosed, taken, builderCalls, requestCount,
                   processed>>
    /\ UNCHANGED <<engineVars, fetchVars>>

\* variant of Handle: the body is closed only when the handler succeeded
\* (no defer: "return" after reporting the handler's error)
HandleNoReleaseOnError(s) ==
    /\ s.pc = "handle"
    /\ handledCount' = handledCount + 1
    /\ \E herr \in {"nil", "handler"}, cerr \in {"nil", "release"} :
          LET handled  == Append(s.calls, Ev("handle", s.url, herr))
              routed   == IF herr # "nil" THEN Report(handled, s.url, herr) ELSE handled
              released == IF herr # "nil" THEN routed
                          ELSE Append(routed, Ev("release", s.url, cerr))
              calls    == IF herr = "nil" /\ cerr # "nil"
                          THEN Report(released, s.url, cerr) ELSE released
              h        == IF herr # "nil" THEN 1 ELSE 0
              c        == IF herr = "nil" /\ cerr # "nil" THEN 1 ELSE 0
          IN  /\ workers' = Move(s, Local("return", s.url, calls))
              /\ errorCount' = errorCount + h + c
              /\ failures' = [failures EXCEPT !["handler"] = @ + h, !["release"] = @ + c]
    /\ UNCHANGED <<token, runState, runErr, workerCount, urlGen, pulled, dpc,
                   urlChan, chanClosed, taken, builderCalls, requestCount,
                   processed>>
    /\ UNCHANGED <<engineVars, fetchVars>>

\* err := c.config.ResponseHandler(url, resp); on error report; then the
\* deferred err := resp.Body.Close(); on error report
Handle(s) ==
    /\ s.pc = "handle"
    /\ handledCount' = handledCount + 1
    /\ \E herr \in {"nil", "handler"}, cerr \in {"nil", "release"} :
          LET handled  == Append(s.calls, Ev("handle", s.url, herr))
              routed   == IF herr # "nil" THEN Report(handled, s.url, herr) ELSE handled
              released == Append(routed, Ev("release", s.url, cerr))
              calls    == IF cerr # "nil" THEN Report(released, s.url, cerr) ELSE released
              h        == IF herr # "nil" THEN 1 ELSE 0
              c        == IF cerr # "nil" THEN 1 ELSE 0
          IN  /\ workers' = Move(s, Local("return", s.url, calls))
              /\ errorCount' = errorCount + h + c
              /\ failures' = [failures EXCEPT !["handler"] = @ + h, !["release"] = @ + c]
    /\ UNCHANGED <<token, runState, runErr, workerCount, urlGen, pulled, dpc,
                   urlChan, chanClosed, taken, builderCalls, requestCount,
                   processed>>
    /\ UNCHANGED <<engineVars, fetchVars>>

\* variant of Return: a worker whose url failed leaves its loop
ReturnFatal(s) ==
    /\ s.pc = "return"
    /\ processed' = processed + 1
    /\ workers' = Move(s, IF \E j \in DOMAIN s.calls : s.calls[j][1] = "error"
                          THEN Exited ELSE AtSelect)
    /\ UNCHANGED <<token, runState, runErr, workerCount, urlGen, pulled, dpc,
                   urlChan, chanClosed, taken, builderCalls, requestCount,
                   handledCount, errorCount, failures>>
    /\ UNCHANGED <<engineVars, fetchVars>>

\* processURL returns; the worker is back at the head of its loop
Return(s) ==
    /\ s.pc = "return"
    /\ processed' = processed + 1
    /\ workers' = Move(s, AtSelect)
    /\ UNCHANGED <<token, runState, runErr, workerCount, urlGen, pulled, dpc,
                   urlChan, chanClosed, taken, builderCalls, requestCount,
                   handledCount, errorCount, failures>>
    /\ UNCHANGED <<engineVars, fetchVars>>

\* ---------------------------------------------------------- specification
Dispatcher == DispatchRange \/ DispatchSend \/ DispatchDone

Worker ==
    \E s \in Workers :
        \/ WorkerRecv(s) \/ WorkerClosed(s) \/ WorkerCtxDone(s)
        \/ Build(s) \/ Send(s) \/ Handle(s) \/ Return(s)

Next ==
    \/ Cancel
    \/ RunStart
    \/ RunReturn
    \/ Dispatcher
    \/ Worker

Spec == Init /\ [][Next]_vars

\* every goroutine that can take a step takes one in the end (the Go scheduler
\* starves no runnable goroutine); the caller is not obliged to call Run or
\* to cancel
Fairness ==
    /\ WF_vars(Dispatcher)
    /\ WF_vars(RunReturn)
    /\ WF_vars(Worker)

LiveSpec == Spec /\ Fairness

\* ================================================================== engine
\* ----------------------------------------------------------------- bounds
\* largest number of New calls explored
MaxNew == 2
\* largest number of Run calls on one Crawler explored
MaxRuns == 2
\* largest number of headers a request builder sets on one request
MaxBuilderHeaders == 2

\* ----------------------------------------------------------------- inputs
\* http.StatusOK
StatusOK == 200

\* values of Config.UserAgent
UserAgents == {<<>>, <<" ">>, <<"x">>, <<"Chrome/", "1", "2", ".", "0">>}

\* bodies the user-agent API may answer with
ApiBodies ==
    {<<>>, <<" ", " ">>, <<"x", " ", "x">>,
     <<" ", "Chrome/", "1", "2", ".", "0", " ">>}

\* what fetchUserAgent can meet: building the request fails, the transport
\* fails (or the 5 second timeout hits), or a response arrives with a status
\* and a body that may fail to be read
ApiResults ==
    {[err |-> e, status |-> 0, body |-> <<>>] : e \in {"request", "network"}}
    \cup {[err |-> "read", status |-> s, body |-> <<>>] : s \in {StatusOK, 204, 404}}
    \cup {[err |-> "nil", status |-> s, body |-> b] :
             s \in {StatusOK, 204, 404}, b \in ApiBodies}

\* the request headers a builder may return: at most MaxBuilderHeaders of
\* the names set, to a value or to the empty string
BuilderHeaders ==
    UNION {[S -> {value}] :
              S \in {T \in SUBSET HeaderNames : Cardinality(T) <= MaxBuilderHeaders},
              value \in {<<>>, <<"builder">>}}

\* the configurations New is called with
EngineConfigs == {[NoConfig EXCEPT !.UserAgent = ua] : ua \in UserAgents}

\* -------------------------------------------------------------- user agent
\* variant of fetchUserAgent: the status of the response is not looked at
fetchUserAgentAnyStatus(met) ==
    IF met.err \in {"request", "network", "read"} THEN defaultUserAgent
    ELSE IF TrimSpace(met.body) = <<>> THEN defaultUserAgent
    ELSE TrimSpace(met.body)

\* fetchUserAgent: the user agent for what the call met
fetchUserAgent(met) ==
    IF met.err = "request" THEN defaultUserAgent
    ELSE IF met.err = "network" THEN defaultUserAgent
    ELSE IF met.status # StatusOK THEN defaultUserAgent
    ELSE IF met.err = "read" THEN defaultUserAgent
    ELSE IF TrimSpace(met.body) = <<>> THEN defaultUserAgent
    ELSE TrimSpace(met.body)

\* variant of UserAgentLookups: the API is asked whatever the config says
UserAgentLookupsAlways(config) == ApiResults

\* getUserAgent: fetchUserAgent is called only for an empty Config.UserAgent;
\* the set of what the call can meet
UserAgentLookups(config) ==
    IF config.UserAgent # <<>> THEN {NotFetched} ELSE ApiResults

\* getUserAgent
getUserAgent(config, met) ==
    IF met = NotFetched THEN config.UserAgent ELSE fetchUserAgent(met)

\* http.DefaultClient.Do(req) in fetchUserAgent was reached
AskedApi(met) == met.err \notin {"not fetched", "request"}

\* -------------------------------------------------------------------- New
\* variant of ConfigDefaults: only a WorkerCount of 0 becomes 10
ConfigDefaultsZeroOnly(config) ==
    [config EXCEPT
        !.WorkerCount = IF config.WorkerCount = 0 THEN defaultWorkerCount
                        ELSE config.WorkerCount,
        !.RequestBuilder = IF config.RequestBuilder = "nil"
                           THEN DefaultRequestBuilder ELSE config.RequestBuilder,
        !.ResponseHandler = IF config.ResponseHandler = "nil"
                            THEN DefaultResponseHandler ELSE config.ResponseHandler,
        !.ErrorHandler = IF config.ErrorHandler = "nil"
                         THEN NoopErrorHandler ELSE config.ErrorHandler,
        !.RedirectionPolicy = IF config.RedirectionPolicy = NoPolicy
                              THEN DefaultPolicy(defaultMaxRedirects)
                              ELSE config.RedirectionPolicy]

\* New, the defaults: a WorkerCount <= 0 becomes 10, a nil callback and a nil
\* RedirectionPolicy become the defaults of handlers.go
ConfigDefaults(config) ==
    [config EXCEPT
        !.WorkerCount = IF config.WorkerCount <= 0 THEN defaultWorkerCount
                        ELSE config.WorkerCount,
        !.RequestBuilder = IF config.RequestBuilder = "nil"
                           THEN DefaultRequestBuilder ELSE config.RequestBuilder,
        !.ResponseHandler = IF config.ResponseHandler = "nil"
                            THEN DefaultResponseHandler ELSE config.ResponseHandler,
        !.ErrorHandler = IF config.ErrorHandler = "nil"
                         THEN NoopErrorHandler ELSE config.ErrorHandler,
        !.RedirectionPolicy = IF config.RedirectionPolicy = NoPolicy
                              THEN DefaultPolicy(defaultMaxRedirects)
                              ELSE config.RedirectionPolicy]

\* New, the transport of the client copy: a nil Transport becomes a new
\* *http.Transport that skips verification; an *http.Transport gets a
\* TLSClientConfig if it has none, and InsecureSkipVerify set; a round-tripper
\* of another type is left as it is
InsecureTransport(transport) ==
    IF transport.type = "nil" THEN HttpTransport(InsecureTLSConfig)
    ELSE IF transport.type = "*http.Transport"
    THEN HttpTransport([(IF transport.TLSClientConfig.set
                         THEN transport.TLSClientConfig ELSE EmptyTLSConfig)
                        EXCEPT !.InsecureSkipVerify = TRUE])
    ELSE transport

\* New, the client: a copy of config.Client (of &http.Client{} when it is
\* nil) whose CheckRedirect, when nil, is the RedirectionPolicy of the config
\* with its defaults, and whose transport skips verification
clientCopy(config) ==
    LET client == IF config.Client.set THEN config.Client ELSE EmptyClient
    IN  [client EXCEPT
            !.CheckRedirect = IF client.CheckRedirect = NoPolicy
                              THEN config.RedirectionPolicy
                              ELSE client.CheckRedirect,
            !.Transport = InsecureTransport(client.Transport)]

\* New, the caller's side: clientCopy := *client copies the Client struct
\* only, so the caller's Client keeps its fields, but a transport of type
\* *http.Transport is the object the caller's Client points to, and New sets
\* its TLSClientConfig and InsecureSkipVerify through that pointer
CallerAfterNew(config) ==
    IF config.Client.set /\ config.Client.Transport.type = "*http.Transport"
    THEN [config EXCEPT !.Client.Transport = InsecureTransport(config.Client.Transport)]
    ELSE config

\* New: defaults, the client copy, the user agent and the client hint derived
\* from it; the model follows the latest Crawler, so New is called when no
\* request of the previous one is under way
New(config) ==
    /\ newCalls < MaxNew
    /\ sent = NoHeader
    /\ fpc \in {"idle", "handled", "reported"}
    /\ \E met \in UserAgentLookups(config) :
          LET userAgent == getUserAgent(config, met)
          IN  /\ crawler' = [config    |-> ConfigDefaults(config),
                             userAgent |-> userAgent,
                             secChUa   |-> generateSecChUa(userAgent),
                             client    |-> clientCopy(ConfigDefaults(config))]
              /\ idFetch' = met
              /\ apiCalls' = apiCalls + (IF AskedApi(met) THEN 1 ELSE 0)
    /\ given' = config
    /\ caller' = CallerAfterNew(config)
    /\ newCalls' = newCalls + 1
    /\ emptyUACalls' = emptyUACalls + (IF config.UserAgent = <<>> THEN 1 ELSE 0)
    /\ runs' = 0
    /\ built' = NoHeader
    /\ sent' = NoHeader
    /\ fpc' = "idle"
    /\ via' = <<>>
    /\ req' = <<>>
    /\ resp' = "none"
    /\ checks' = <<>>
    /\ UNCHANGED runVars

\* Run is called on the Crawler, no earlier Run being under way: it reads
\* c.config and c.client only
EngineRun ==
    /\ newCalls > 0
    /\ runs < MaxRuns
    /\ sent = NoHeader
    /\ runs' = runs + 1
    /\ UNCHANGED <<given, caller, crawler, newCalls, emptyUACalls, apiCalls, idFetch, built, sent>>
    /\ UNCHANGED <<runVars, fetchVars>>

\* variant of ProcessURLHeaders: the user agent is looked up for every request
ProcessURLHeadersRefetching ==
    /\ runs > 0
    /\ sent = NoHeader
    /\ \E header \in BuilderHeaders :
          /\ built' = header
          /\ sent' = SetHeaders(crawler, header)
    /\ apiCalls' = apiCalls + 1
    /\ UNCHANGED <<given, caller, crawler, newCalls, emptyUACalls, idFetch, runs>>
    /\ UNCHANGED <<runVars, fetchVars>>

\* processURL in a worker of a Run, for a request the builder returned: the
\* headers are set and the request is handed to c.client.Do
ProcessURLHeaders ==
    /\ runs > 0
    /\ sent = NoHeader
    /\ \E header \in BuilderHeaders :
          /\ built' = header
          /\ sent' = SetHeaders(crawler, header)
    /\ UNCHANGED <<given, caller, crawler, newCalls, emptyUACalls, apiCalls, idFetch, runs>>
    /\ UNCHANGED <<runVars, fetchVars>>

\* processURL returns
ProcessURLDone ==
    /\ sent # NoHeader
    /\ built' = NoHeader
    /\ sent' = NoHeader
    /\ UNCHANGED <<given, caller, crawler, newCalls, emptyUACalls, apiCalls, idFetch, runs>>
    /\ UNCHANGED <<runVars, fetchVars>>

EngineInit == Init /\ workerCount = 1

EngineNext ==
    \/ \E config \in EngineConfigs : New(config)
    \/ EngineRun
    \/ ProcessURLHeaders
    \/ ProcessURLDone

EngineSpec == EngineInit /\ [][EngineNext]_vars

\* ================================================================ redirects
\* ----------------------------------------------------------------- bounds
\* largest limit n of a configured DefaultRedirectionPolicy(n)
MaxRedirects == 3
\* largest number of requests one fetch makes (the server stops redirecting)
MaxChain == 4
\* longest chain a policy is called with directly
MaxVia == 3

\* ------------------------------------------------------------------ hosts
\* a host is the sequence of its labels: <<"www", "example", "com">>
PublicSuffixes == {<<"com">>, <<"uk">>, <<"co", "uk">>}

Hosts ==
    {<<"example", "com">>, <<"www", "example", "com">>, <<"other", "com">>,
     <<"com">>, <<"a", "co", "uk">>, <<"b", "co", "uk">>}

\* the hosts the server of a fetch redirects between
FetchHosts == {<<"example", "com">>, <<"www", "example", "com">>, <<"other", "com">>}

\* the last k labels of host
LastLabels(host, k) == SubSeq(host, Len(host) - k + 1, Len(host))

\* publicsuffix.EffectiveTLDPlusOne: the public suffix of the host (its
\* longest listed suffix, else its last label) plus one label; an error when
\* the host has no label in front of its suffix
EffectiveTLDPlusOne(host) ==
    LET listed == {k \in 1..Len(host) : LastLabels(host, k) \in PublicSuffixes}
        suffix == IF listed # {} THEN CHOOSE k \in listed : \A j \in listed : j <= k
                  ELSE IF host = <<>> THEN 0 ELSE 1
    IN  IF Len(host) <= suffix
        THEN [err |-> TRUE, domain |-> <<>>]
        ELSE [err |-> FALSE, domain |-> LastLabels(host, suffix + 1)]

\* --------------------------------------------------------------- policies
\* variant of DefaultRedirectionPolicy: the limit itself is still allowed
DefaultRedirectionPolicyInclusive(maxRedirects, r, v) ==
    IF Len(v) > maxRedirects THEN ErrUseLastResponse ELSE "nil"

\* the function DefaultRedirectionPolicy(maxRedirects) returns, applied to
\* the pending request r and the chain v of the requests made already
DefaultRedirectionPolicy(maxRedirects, r, v) ==
    IF Len(v) >= maxRedirects THEN ErrUseLastResponse ELSE "nil"

\* variant of SameDomainRedirectionPolicy: the pending host is compared with
\* the host of the preceding request
SameDomainRedirectionPolicyLastHop(r, v) ==
    IF Len(v) >= SameDomainMaxRedirects THEN ErrUseLastResponse
    ELSE IF Len(v) = 0 THEN "nil"
    ELSE IF EffectiveTLDPlusOne(v[Len(v)]).err THEN ErrUseLastResponse
    ELSE IF EffectiveTLDPlusOne(r).err THEN ErrUseLastResponse
    ELSE IF EffectiveTLDPlusOne(v[Len(v)]).domain # EffectiveTLDPlusOne(r).domain
         THEN ErrUseLastResponse
    ELSE "nil"

\* variant of SameDomainRedirectionPolicy: a chain of three requests may
\* still grow
SameDomainRedirectionPolicyInclusive(r, v) ==
    IF Len(v) > SameDomainMaxRedirects THEN ErrUseLastResponse
    ELSE IF Len(v) = 0 THEN "nil"
    ELSE IF EffectiveTLDPlusOne(v[1]).err THEN ErrUseLastResponse
    ELSE IF EffectiveTLDPlusOne(r).err THEN ErrUseLastResponse
    ELSE IF EffectiveTLDPlusOne(v[1]).domain # EffectiveTLDPlusOne(r).domain
         THEN ErrUseLastResponse
    ELSE "nil"

\* the function SameDomainRedirectionPolicy() returns, applied to r and v
SameDomainRedirectionPolicy(r, v) ==
    IF Len(v) >= SameDomainMaxRedirects THEN ErrUseLastResponse
    ELSE IF Len(v) = 0 THEN "nil"
    ELSE IF EffectiveTLDPlusOne(v[1]).err THEN ErrUseLastResponse
    ELSE IF EffectiveTLDPlusOne(r).err THEN ErrUseLastResponse
    ELSE IF EffectiveTLDPlusOne(v[1]).domain # EffectiveTLDPlusOne(r).domain
         THEN ErrUseLastResponse
    ELSE "nil"

\* what a call policy(r, v) can return: the stock policies are functions; a
\* function of the caller's own may allow, veto or fail
CheckRedirect(policy, r, v) ==
    IF policy.fn = "DefaultRedirectionPolicy"
    THEN {DefaultRedirectionPolicy(policy.maxRedirects, r, v)}
    ELSE IF policy.fn = "SameDomainRedirectionPolicy"
    THEN {SameDomainRedirectionPolicy(r, v)}
    ELSE {"nil", ErrUseLastResponse, "policy error"}

\* a CheckRedirect call of a fetch and its result
Check(policy, r, v, result) ==
    [policy |-> policy, req |-> r, via |-> v, result |-> result]

\* ----------------------------------------------------------------- inputs
StockPolicies ==
    {SameDomainPolicy} \cup {DefaultPolicy(n) : n \in (-1)..MaxRedirects}

\* the chains a policy is called with directly
Chains == UNION {[1..k -> Hosts] : k \in 0..MaxVia}

\* the configurations of the engines that fetch
FetchConfigs ==
    {[NoConfig EXCEPT !.UserAgent = <<"x">>, !.RedirectionPolicy = p, !.Client = c] :
        p \in StockPolicies \cup {NoPolicy, CallerPolicy("Config.RedirectionPolicy")},
        c \in {NoClient,
               EmptyClient,
               [EmptyClient EXCEPT !.CheckRedirect = CallerPolicy("Client.CheckRedirect")]}}

\* ------------------------------------------------- a policy called directly
\* policy(req, via), as the tests call it
PolicyCall ==
    /\ checks = <<>>
    /\ \E p \in StockPolicies, r \in Hosts, v \in Chains :
          \E result \in CheckRedirect(p, r, v) :
              checks' = <<Check(p, r, v, result)>>
    /\ UNCHANGED <<fpc, via, req, resp>>
    /\ UNCHANGED <<runVars, engineVars>>

\* the result has been looked at
PolicyReturn ==
    /\ checks # <<>>
    /\ checks' = <<>>
    /\ UNCHANGED <<fpc, via, req, resp>>
    /\ UNCHANGED <<runVars, engineVars>>

PolicyNext == PolicyCall \/ PolicyReturn

PolicySpec == EngineInit /\ [][PolicyNext]_vars

\* ------------------------------------------------------------------- fetch
\* resp, err := c.client.Do(req): the client starts on the request
FetchStart ==
    /\ newCalls > 0
    /\ fpc \in {"idle", "handled", "reported"}
    /\ \E host \in FetchHosts : req' = host
    /\ fpc' = "request"
    /\ via' = <<>>
    /\ resp' = "none"
    /\ checks' = <<>>
    /\ UNCHANGED <<runVars, engineVars>>

\* the client makes the request: the transport fails, or the server answers
\* with a final response or with a redirect to another host
FetchRespond ==
    /\ fpc = "request"
    /\ via' = Append(via, req)
    /\ \/ /\ fpc' = "failed"
          /\ UNCHANGED <<req, resp>>
       \/ /\ fpc' = "delivered"
          /\ resp' = "final"
          /\ UNCHANGED req
       \/ /\ Len(via) + 1 < MaxChain
          /\ \E host \in FetchHosts : req' = host
          /\ resp' = "redirect"
          /\ fpc' = "redirect"
    /\ UNCHANGED checks
    /\ UNCHANGED <<runVars, engineVars>>

\* variant of FetchCheckRedirect: a veto makes Do fail
FetchCheckVetoFails ==
    /\ fpc = "redirect"
    /\ \E result \in CheckRedirect(crawler.client.CheckRedirect, req, via) :
          /\ checks' = Append(checks, Check(crawler.client.CheckRedirect,
                                            req, via, result))
          /\ fpc' = IF result = "nil" THEN "request" ELSE "failed"
    /\ UNCHANGED <<via, req, resp>>
    /\ UNCHANGED <<runVars, engineVars>>

\* before following a redirect the client calls c.client.CheckRedirect with
\* the pending request and the requests made already: nil lets it go on,
\* ErrUseLastResponse makes Do return the response received last, any other
\* error makes Do fail
FetchCheckRedirect ==
    /\ fpc = "redirect"
    /\ \E result \in CheckRedirect(crawler.client.CheckRedirect, req, via) :
          /\ checks' = Append(checks, Check(crawler.client.CheckRedirect,
                                            req, via, result))
          /\ fpc' = IF result = "nil" THEN "request"
                    ELSE IF result = ErrUseLastResponse THEN "delivered"
                    ELSE "failed"
    /\ UNCHANGED <<via, req, resp>>
    /\ UNCHANGED <<runVars, engineVars>>

\* Do returned a response: c.config.ResponseHandler(url, resp)
FetchHandle ==
    /\ fpc = "delivered"
    /\ fpc' = "handled"
    /\ UNCHANGED <<via, req, resp, checks>>
    /\ UNCHANGED <<runVars, engineVars>>

\* Do returned an error: c.config.ErrorHandler(url, err)
FetchReport ==
    /\ fpc = "failed"
    /\ fpc' = "reported"
    /\ UNCHANGED <<via, req, resp, checks>>
    /\ UNCHANGED <<runVars, engineVars>>

FetchNext ==
    \/ \E config \in FetchConfigs : New(config)
    \/ FetchStart
    \/ FetchRespond
    \/ FetchCheckRedirect
    \/ FetchHandle
    \/ FetchReport

FetchSpec == EngineInit /\ [][FetchNext]_vars

\* ============================================================ construction
\* ----------------------------------------------------------------- bounds
\* longest Config.UserAgent, in symbols, New is called with
MaxUALen == 6

\* ----------------------------------------------------------------- inputs
\* the symbols of those user agents
UASymbols == {"Chrome/", "1", "2", ".", "x"}

\* the non-empty user agents of at most MaxUALen symbols
UAStrings == UNION {[1..k -> UASymbols] : k \in 1..MaxUALen}

\* the callbacks a Config may hold
Callbacks == {"nil", "caller"}

\* the transports a caller's client may have
Transports ==
    {NoTransport}
    \cup {HttpTransport(t) : t \in {NoTLSConfig, EmptyTLSConfig, InsecureTLSConfig}}
    \cup {CustomRoundTripper(t) : t \in {NoTLSConfig, EmptyTLSConfig, InsecureTLSConfig}}

\* the values of Config.Client
Clients ==
    {NoClient}
    \cup {[set |-> TRUE, CheckRedirect |-> p, Transport |-> t] :
             p \in {NoPolicy, CallerPolicy("Client.CheckRedirect")},
             t \in Transports}

\* the configurations New is called with: every user agent of UAStrings with
\* the rest of the Config at its zero value, and every combination of the
\* other fields with one user agent
NewConfigs ==
    {[NoConfig EXCEPT !.UserAgent = ua] : ua \in UAStrings}
    \cup {[WorkerCount |-> w, RequestBuilder |-> b, ResponseHandler |-> h,
           ErrorHandler |-> e, UserAgent |-> <<"x">>, RedirectionPolicy |-> p,
           Client |-> c] :
             w \in (-1)..MaxWorkers, b \in Callbacks, h \in Callbacks,
             e \in Callbacks,
             p \in {NoPolicy, SameDomainPolicy, CallerPolicy("Config.RedirectionPolicy")},
             c \in Clients}

\* New is called once
NewNext == newCalls = 0 /\ \E config \in NewConfigs : New(config)

NewSpec == EngineInit /\ [][NewNext]_vars

\* ============================================================ repeated runs
\* New is called with the WorkerCount the runs are explored with
RerunNew ==
    /\ runState = "constructed"
    /\ newCalls = 0
    /\ New([NoConfig EXCEPT !.WorkerCount = workerCount, !.UserAgent = <<"x">>])

\* what Run makes anew whoever called it before: the channel, the wait group
\* with the workers, the dispatcher; and the observers of the model start anew
FreshRun ==
    /\ runState' = "running"
    /\ runErr' = "unset"
    /\ pulled' = 0
    /\ dpc' = "range"
    /\ workers' = [s \in {AtSelect} |-> crawler.config.WorkerCount]
    /\ taken' = [i \in 1..MaxURLs |-> 0]
    /\ builderCalls' = 0
    /\ requestCount' = 0
    /\ handledCount' = 0
    /\ errorCount' = 0
    /\ processed' = 0
    /\ failures' = [k \in FailureKinds |-> 0]

\* variant of RunCall: the channel is kept from one Run to the next
RunCallSharedQueue ==
    /\ newCalls > 0
    /\ runs < MaxRuns
    /\ runState \in {"constructed", "returned"}
    /\ workerCount = crawler.config.WorkerCount
    /\ \E g \in Producers : urlGen' = g
    /\ token' \in {token, "live"}
    /\ FreshRun
    /\ runs' = runs + 1
    /\ UNCHANGED <<workerCount, urlChan, chanClosed>>
    /\ UNCHANGED <<given, caller, crawler, newCalls, emptyUACalls, apiCalls, idFetch, built, sent>>
    /\ UNCHANGED fetchVars

\* c.Run(ctx, urlGen) on the Crawler, no Run of it being under way: the first
\* Run, or a later one after a Run that has returned; the caller passes a
\* token (the one of the earlier Run or a live one) and a producer
RunCall ==
    /\ newCalls > 0
    /\ runs < MaxRuns
    /\ runState \in {"constructed", "returned"}
    /\ workerCount = crawler.config.WorkerCount
    /\ \E g \in Producers : urlGen' = g
    /\ token' \in {token, "live"}
    /\ FreshRun
    /\ urlChan' = <<>>
    /\ chanClosed' = 0
    /\ runs' = runs + 1
    /\ UNCHANGED workerCount
    /\ UNCHANGED <<given, caller, crawler, newCalls, emptyUACalls, apiCalls, idFetch, built, sent>>
    /\ UNCHANGED fetchVars

RerunNext ==
    \/ RerunNew
    \/ RunCall
    \/ Cancel
    \/ RunReturn
    \/ Dispatcher
    \/ Worker

RerunSpec == Init /\ [][RerunNext]_vars

\* ==================================================================== flow
\* the flow of items through one Run, with processURL as one step: the
\* dispatcher, the queue and the workers as in the code, for producers long
\* enough to fill the queue, every worker and the dispatcher's hand
\* ----------------------------------------------------------------- inputs
\* largest number of items a producer yields within the explored prefix
FlowItems == 3 * MaxWorkers + 2

FlowProducers ==
    {[len |-> k, infinite |-> FALSE] : k \in {1, FlowItems}}
    \cup {[len |-> 0, infinite |-> TRUE]}

\* Run: make the channel, start the workers and the dispatcher
FlowStart ==
    /\ runState = "constructed"
    /\ \E g \in FlowProducers : urlGen' = g
    /\ runState' = "running"
    /\ urlChan' = <<>>
    /\ workers' = [s \in {AtSelect} |-> workerCount]
    /\ dpc' = "range"
    /\ UNCHANGED <<token, runErr, workerCount, pulled, chanClosed, taken,
                   builderCalls, requestCount, handledCount, errorCount,
                   processed, failures>>
    /\ UNCHANGED <<engineVars, fetchVars>>

\* for url := range urlGen: pull the next item, or leave the loop when the
\* producer is exhausted (the deferred close(urlChan) then runs)
FlowRange ==
    /\ dpc = "range"
    /\ \/ /\ HasNext
          /\ pulled < FlowItems
          /\ pulled' = pulled + 1
          /\ dpc' = "select"
          /\ UNCHANGED chanClosed
       \/ /\ ~HasNext
          /\ chanClosed' = chanClosed + 1
          /\ dpc' = "done"
          /\ UNCHANGED pulled
    /\ UNCHANGED <<token, runState, runErr, workerCount, urlGen, urlChan,
                   workers, taken, builderCalls, requestCount, handledCount,
                   errorCount, processed, failures>>
    /\ UNCHANGED <<engineVars, fetchVars>>

\* select { case url, ok := <-urlChan: }  with ok: the worker holds the url
FlowRecv(s) ==
    /\ s.pc = "select"
    /\ urlChan # <<>>
    /\ urlChan' = Tail(urlChan)
    /\ workers' = Move(s, Local("build", Head(urlChan), <<>>))
    /\ UNCHANGED <<token, runState, runErr, workerCount, urlGen, pulled, dpc,
                   chanClosed, taken, builderCalls, requestCount, handledCount,
                   errorCount, processed, failures>>
    /\ UNCHANGED <<engineVars, fetchVars>>

\* c.processURL(ctx, url) from its first call to its return, whatever fails
FlowProcess(s) ==
    /\ s.pc = "build"
    /\ processed' = processed + 1
    /\ workers' = Move(s, AtSelect)
    /\ UNCHANGED <<token, runState, runErr, workerCount, urlGen, pulled, dpc,
                   urlChan, chanClosed, taken, builderCalls, requestCount,
                   handledCount, errorCount, failures>>
    /\ UNCHANGED <<engineVars, fetchVars>>

FlowNext ==
    \/ Cancel
    \/ FlowStart
    \/ RunReturn
    \/ FlowRange
    \/ DispatchSend
    \/ DispatchDone
    \/ \E s \in Workers :
          \/ FlowRecv(s) \/ WorkerClosed(s) \/ WorkerCtxDone(s) \/ FlowProcess(s)

FlowSpec == Init /\ [][FlowNext]_vars

\* =================================================================== claims
\* the producer was exhausted and every item it yielded was fully processed
AllProcessed ==
    /\ ~urlGen.infinite
    /\ pulled = urlGen.len
    /\ processed = urlGen.len
    /\ \A i \in 1..urlGen.len : taken[i] = 1

\* C1: with a finite producer of k URLs, a token that is never cancelled and
\* a builder and transport that never fail, Run eventually returns nil after
\* exactly k requests and exactly k response-handler calls, each URL taken
\* once, for every WorkerCount
C1_BasicCrawl ==
    (runState = "running" /\ ~urlGen.infinite)
        ~> \/ token # "live"
           \/ failures["build"] + failures["transport"] > 0
           \/ /\ runState = "returned"
              /\ runErr = "nil"
              /\ requestCount = urlGen.len
              /\ handledCount = urlGen.len
              /\ AllProcessed

C1_Witness ==
    /\ runState = "returned"
    /\ token = "live"
    /\ runErr = "nil"
    /\ workerCount = MaxWorkers
    /\ urlGen.len = MaxURLs
    /\ requestCount = MaxURLs
    /\ handledCount = MaxURLs

\* C2 (as claimed): once the producer is exhausted and every URL it yielded
\* is fully processed with the token still live (nothing was skipped because
\* of the token), Run returns no error
C2_NilWhenNothingSkipped ==
    []((runState = "running" /\ token = "live" /\ dpc = "done" /\ AllProcessed)
          => [](runState = "returned" => runErr = "nil"))

\* C2 (amended): Run returns what the token holds when Run reads it after the
\* last worker has exited: nil only if the producer was exhausted and every
\* yielded URL was fully processed, the cancellation error whenever the run
\* was stopped early, and the cancellation error only if the token is done
C2_RunResult ==
    runState = "returned" =>
        /\ runErr \in {"nil", "canceled"}
        /\ runErr = "nil" => AllProcessed
        /\ runErr = "canceled" => token = "canceled"

C2_Witness ==
    /\ runState = "returned"
    /\ runErr = "canceled"
    /\ AllProcessed
    /\ urlGen.len = MaxURLs

\* C3: once the token is cancelled while Run is active, Run eventually
\* returns, and it returns the token's error; also with a producer that
\* never ends and with the dispatcher blocked on a full queue
C3_CancelEndsRun ==
    (runState = "running" /\ token = "canceled")
        ~> (runState = "returned" /\ runErr = "canceled")

C3_Witness ==
    /\ runState = "returned"
    /\ runErr = "canceled"
    /\ urlGen.infinite
    /\ dpc = "done"
    /\ Len(urlChan) = QueueCap

\* C4 (as claimed): once the token is cancelled the dispatcher places no
\* further URL into the queue
C4_NoPlacementAfterCancel ==
    [][token = "canceled" => Len(urlChan') <= Len(urlChan)]_vars

\* C5 (as claimed): once the token is cancelled no worker takes a URL from
\* the queue
C5_NoReceiveAfterCancel ==
    [][token = "canceled" => taken' = taken]_vars

\* ------------------------------------------------ calls made for one url
\* positions of the calls of op among calls
CallsOf(calls, op) == {j \in DOMAIN calls : calls[j][1] = op}

\* some call of op returned an error
FailedCall(calls, op) == \E j \in CallsOf(calls, op) : calls[j][3] # "nil"

\* the calls that returned an error
FailedCalls(calls) ==
    {j \in DOMAIN calls : calls[j][1] # "error" /\ calls[j][3] # "nil"}

\* the outcomes a finished url shows
Outcomes(calls) ==
    {o \in {"build failure", "transport failure", "delivered, handler failed",
            "delivered, handler succeeded"} :
        \/ o = "build failure" /\ FailedCall(calls, "build")
        \/ o = "transport failure" /\ FailedCall(calls, "send")
        \/ o = "delivered, handler failed" /\ FailedCall(calls, "handle")
        \/ o = "delivered, handler succeeded"
              /\ \E j \in CallsOf(calls, "handle") : calls[j][3] = "nil"}

\* the workers whose processURL has made all its calls and is about to return
Finished == {s \in Workers : s.pc = "return"}

\* C6: when the transport call fails, the calls made for the url are the
\* builder, the transport and one error-handler call with that url and the
\* transport's error, and no response-handler call; and a run in which every
\* url fails in the transport reports exactly one error per url
C6_TransportFailure ==
    /\ \A s \in Workers :
          FailedCall(s.calls, "send") =>
              /\ s.pc = "return"
              /\ \E err \in {"transport", "canceled"} :
                    s.calls = <<Ev("build", s.url, "nil"), Ev("send", s.url, err),
                                Ev("error", s.url, err)>>
    /\ (runState = "returned" /\ token = "live" /\ handledCount = 0
            /\ failures["build"] = 0)
          => /\ failures["transport"] = urlGen.len
             /\ errorCount = urlGen.len

C6_Witness ==
    /\ runState = "returned"
    /\ token = "live"
    /\ urlGen.len = MaxURLs
    /\ failures["transport"] = MaxURLs
    /\ errorCount = MaxURLs
    /\ handledCount = 0

\* C7: when the request builder fails, the calls made for the url are the
\* builder and one error-handler call with the url received from the queue
\* and the build error: no request is sent and no response handler is called
C7_BuildFailure ==
    /\ \A s \in Workers :
          FailedCall(s.calls, "build") =>
              /\ s.pc = "return"
              /\ s.calls = <<Ev("build", s.url, "build"), Ev("error", s.url, "build")>>
    /\ requestCount + failures["build"] <= builderCalls

C7_Witness ==
    \E s \in Finished :
        /\ FailedCall(s.calls, "build")
        /\ requestCount = 0
        /\ failures["build"] = 1

\* C8: a failure of the response handler is passed to the error handler with
\* the same url, right after the handler call, and nothing is retried: for a
\* url the builder, the transport and the response handler are each called
\* at most once
C8_HandlerFailure ==
    /\ \A s \in Workers :
          /\ \A op \in {"build", "send", "handle"} :
                Cardinality(CallsOf(s.calls, op)) <= 1
          /\ \A j \in CallsOf(s.calls, "handle") :
                s.calls[j][3] # "nil" =>
                    /\ j < Len(s.calls)
                    /\ s.calls[j + 1] = Ev("error", s.url, s.calls[j][3])
                    /\ Cardinality({i \in CallsOf(s.calls, "error") :
                                        s.calls[i][3] = "handler"}) = 1
    /\ handledCount <= requestCount
    /\ requestCount <= builderCalls
    /\ builderCalls <= pulled

C8_Witness ==
    \E s \in Finished :
        /\ FailedCall(s.calls, "handle")
        /\ Cardinality(CallsOf(s.calls, "handle")) = 1

\* C9 (as claimed): a url whose processing fails has exactly one
\* error-handler call
C9_OneReportPerFailingURL ==
    \A s \in Finished :
        /\ Cardinality(Outcomes(s.calls)) = 1
        /\ FailedCalls(s.calls) # {} => Cardinality(CallsOf(s.calls, "error")) = 1

\* C9 (amended): a finished url shows exactly one of the four outcomes, and
\* the error handler is called once per failed call: once for a build
\* failure, once for a transport failure, and after a delivered response once
\* if the handler failed and once more if releasing the body failed
C9_OutcomeAndReports ==
    /\ \A s \in Finished :
          /\ Cardinality(Outcomes(s.calls)) = 1
          /\ Cardinality(CallsOf(s.calls, "error")) = Cardinality(FailedCalls(s.calls))
          /\ Cardinality(CallsOf(s.calls, "error")) <= 2
          /\ Cardinality(CallsOf(s.calls, "error")) = 2
                => FailedCall(s.calls, "handle") /\ FailedCall(s.calls, "release")
    /\ errorCount = failures["build"] + failures["transport"]
                        + failures["handler"] + failures["release"]

C9_Witness ==
    \E s \in Finished :
        /\ FailedCall(s.calls, "handle")
        /\ FailedCall(s.calls, "release")
        /\ Cardinality(CallsOf(s.calls, "error")) = 2

\* C10: failures are not fatal: while the token is live a worker leaves its
\* loop only when the queue is closed and drained, and a run whose token is
\* not cancelled returns nil with every url of the producer processed,
\* whatever failed
C10_FailuresNonFatal ==
    /\ (token = "live" /\ NumAt("exited") > 0) => (chanClosed > 0 /\ urlChan = <<>>)
    /\ (runState = "returned" /\ token = "live") => (runErr = "nil" /\ AllProcessed)

C10_Witness ==
    /\ runState = "returned"
    /\ token = "live"
    /\ runErr = "nil"
    /\ urlGen.len = MaxURLs
    /\ failures["build"] + failures["transport"] + failures["handler"] = MaxURLs
    /\ \A k \in FailureKinds : failures[k] >= 1

\* C11 (as claimed): the error handler is never called with the token's
\* cancellation/deadline error, also not for a request that is in flight or
\* is started when the token expires
C11_CancelNotReported ==
    \A s \in Workers :
        \A j \in CallsOf(s.calls, "error") : s.calls[j][3] # "canceled"

\* C12: the request handed to the client carries the engine's resolved user
\* agent whatever the builder set, and each of the 14 browser headers carries
\* the builder's value when the builder set a non-empty one and the fixed
\* default otherwise, the default of Sec-Ch-Ua being the client hint derived
\* from the resolved user agent
C12_HeadersSent ==
    sent # NoHeader =>
        /\ Len(BrowserHeaders) = 14
        /\ Get(sent, "User-Agent") = crawler.userAgent
        /\ \A i \in DOMAIN BrowserHeaders :
              LET key == BrowserHeaders[i]
              IN  Get(sent, key) =
                      IF Get(built, key) # <<>> THEN Get(built, key)
                      ELSE IF key = "Sec-Ch-Ua" THEN generateSecChUa(crawler.userAgent)
                      ELSE HeaderValue(crawler, key)

C12_Witness ==
    /\ Get(built, "User-Agent") = <<"builder">>
    /\ Get(built, "Accept") = <<"builder">>
    /\ Get(sent, "Accept") = <<"builder">>
    /\ Get(sent, "User-Agent") = <<"Chrome/", "1", "2", ".", "0">>
    /\ Get(sent, "Pragma") = <<"no-cache">>
    /\ Get(sent, "Sec-Ch-Ua") = generateSecChUa(<<"Chrome/", "1", "2", ".", "0">>)

\* C18: with a non-empty Config.UserAgent the resolved user agent is that
\* string exactly and New makes no call to the user-agent API; and the
\* resolved user agent is the User-Agent of every request of every Run
C18_ExplicitUserAgent ==
    /\ [](/\ (newCalls > 0 /\ crawler.config.UserAgent # <<>>) =>
                (crawler.userAgent = crawler.config.UserAgent /\ idFetch = NotFetched)
          /\ sent # NoHeader => Get(sent, "User-Agent") = crawler.userAgent)
    /\ [][(newCalls' > newCalls /\ crawler'.config.UserAgent # <<>>)
              => apiCalls' = apiCalls]_vars

C18_Witness ==
    /\ newCalls = MaxNew
    /\ apiCalls = 0
    /\ crawler.config.UserAgent = <<" ">>
    /\ runs = MaxRuns
    /\ Get(built, "User-Agent") = <<"builder">>
    /\ Get(sent, "User-Agent") = <<" ">>

\* C19: the user-agent API is asked at most once per New called with an
\* empty Config.UserAgent, and never by a Run or by the processing of a URL
C19_OneLookupPerEngine ==
    /\ [](apiCalls <= emptyUACalls /\ emptyUACalls <= newCalls)
    /\ [][newCalls' = newCalls => apiCalls' = apiCalls]_vars

C19_Witness ==
    /\ emptyUACalls = MaxNew
    /\ apiCalls = MaxNew
    /\ runs = MaxRuns
    /\ sent # NoHeader

\* the identity fetch failed: a call returned an error, the status is not a
\* success status, or the body is empty or white space only
FetchFailed(met) ==
    \/ met.err \in {"request", "network", "read"}
    \/ met.status \notin 200..299
    \/ \A i \in DOMAIN met.body : met.body[i] = " "

\* C20: with no explicit user agent, every failure of the identity fetch
\* yields the hardcoded fallback user agent; and the resolved user agent of
\* every constructed engine is a non-empty string
C20_FallbackUserAgent ==
    newCalls > 0 =>
        /\ crawler.userAgent # <<>>
        /\ (crawler.config.UserAgent = <<>> /\ FetchFailed(idFetch))
              => crawler.userAgent = defaultUserAgent

C20_Witness ==
    /\ crawler.config.UserAgent = <<>>
    /\ idFetch.err = "nil"
    /\ idFetch.status = 404
    /\ idFetch.body = <<"x", " ", "x">>
    /\ crawler.userAgent = defaultUserAgent

\* ------------------------------------------------------- redirect policies
\* the CheckRedirect calls made with policy function fn
ChecksOf(fn) == {i \in DOMAIN checks : checks[i].policy.fn = fn}

\* the pending host r has the registrable domain of the first request of v
SameRegistrableDomain(r, v) ==
    /\ v # <<>>
    /\ ~EffectiveTLDPlusOne(v[1]).err
    /\ ~EffectiveTLDPlusOne(r).err
    /\ EffectiveTLDPlusOne(v[1]).domain = EffectiveTLDPlusOne(r).domain

\* the last CheckRedirect call of the fetch vetoed the hop
Vetoed == checks # <<>> /\ checks[Len(checks)].result = ErrUseLastResponse

\* C13: DefaultRedirectionPolicy(n) allows a hop exactly when the chain is
\* shorter than n, whatever the pending request and the requests of the
\* chain are, and vetoes it otherwise (so n <= 0 vetoes every hop)
C13_DefaultPolicyByLength ==
    \A i \in ChecksOf("DefaultRedirectionPolicy") :
        /\ checks[i].result \in {"nil", ErrUseLastResponse}
        /\ checks[i].result = "nil" <=> Len(checks[i].via) < checks[i].policy.maxRedirects

C13_Witness ==
    \E i \in ChecksOf("DefaultRedirectionPolicy") :
        /\ checks[i].policy.maxRedirects = 3
        /\ Len(checks[i].via) = 3
        /\ checks[i].result = ErrUseLastResponse

\* C14 (as claimed): against a server that keeps redirecting, a fetch under
\* DefaultRedirectionPolicy(n) follows exactly n redirect hops before the
\* last response is delivered
C14_FollowsNHops ==
    (/\ fpc = "delivered"
     /\ Vetoed
     /\ crawler.client.CheckRedirect.fn = "DefaultRedirectionPolicy"
     /\ crawler.client.CheckRedirect.maxRedirects >= 0)
        => Len(via) - 1 = crawler.client.CheckRedirect.maxRedirects

C16_VetoIsNoError ==
    /\ [](/\ \A i \in DOMAIN checks :
                checks[i].policy \in StockPolicies
                    => checks[i].result \in {"nil", ErrUseLastResponse}
          /\ Vetoed => (fpc \in {"delivered", "handled"} /\ resp = "redirect"))
    /\ [][(Vetoed /\ fpc = "delivered")
              => (fpc' = "handled" /\ resp' = resp /\ checks' = checks)]_vars

C16_Witness ==
    /\ Vetoed
    /\ fpc = "handled"
    /\ resp = "redirect"
    /\ crawler.client.CheckRedirect = SameDomainPolicy
    /\ via = <<<<"example", "com">>, <<"www", "example", "com">>>>
    /\ req = <<"other", "com">>

\* C17 (as claimed): on every redirect hop the client consults the
\* configured redirect policy (Config.RedirectionPolicy, or the bounded-count
\* policy with limit 3 when none is configured), whatever Config.Client is
C17_ConfiguredPolicyConsulted ==
    \A i \in DOMAIN checks : checks[i].policy = crawler.config.RedirectionPolicy

\* ------------------------------------------------------------ construction
\* the occurrences of Chrome/<digits>. in s: the position of "Chrome/" and
\* the position of the dot that ends a non-empty run of digits after it
ChromeOccurrences(s) ==
    {o \in (DOMAIN s) \X (DOMAIN s) :
        /\ s[o[1]] = "Chrome/"
        /\ o[2] > o[1] + 1
        /\ \A k \in (o[1] + 1)..(o[2] - 1) : s[k] \in {"1", "2", "4"}
        /\ s[o[2]] = "."}

\* the client hint for version
SecChUaOf(version) ==
    <<"\"Chromium\";v=\"">> \o version \o <<"\", \"Google Chrome\";v=\"">>
        \o version \o <<"\", \"Not_A Brand\";v=\"99\"">>

\* C21: the client hint is a function of the user agent alone: it is
\* "Chromium";v="V", "Google Chrome";v="V", "Not_A Brand";v="99" where V is
\* the digit run of the first occurrence of Chrome/<digits>. in the user
\* agent, and 144 when there is no such occurrence
C21_SecChUa ==
    newCalls > 0 =>
        LET s   == crawler.userAgent
            occ == ChromeOccurrences(s)
        IN  IF occ = {}
            THEN crawler.secChUa = SecChUaOf(<<"1", "4", "4">>)
            ELSE \E o \in occ :
                    /\ \A q \in occ : o[1] <= q[1]
                    /\ crawler.secChUa = SecChUaOf(SubSeq(s, o[1] + 1, o[2] - 1))

C21_Witness ==
    /\ crawler.userAgent = <<"Chrome/", ".", "Chrome/", "1", "2", ".">>
    /\ crawler.secChUa = <<"\"Chromium\";v=\"", "1", "2", "\", \"Google Chrome\";v=\"",
                           "1", "2", "\", \"Not_A Brand\";v=\"99\"">>

\* C22: New substitutes defaults: a WorkerCount <= 0 becomes 10 and a
\* positive one is kept; a nil request builder, response handler, error
\* handler and redirect policy become the default GET builder, the
\* status-printing handler, the no-op error handler and the bounded-count
\* policy with limit 3, and non-nil values are kept; so the engine has a
\* WorkerCount >= 1 and no nil callback
C22_Defaults ==
    newCalls > 0 =>
        /\ crawler.config.WorkerCount =
              IF given.WorkerCount <= 0 THEN 10 ELSE given.WorkerCount
        /\ crawler.config.RequestBuilder =
              IF given.RequestBuilder = "nil" THEN "DefaultRequestBuilder"
              ELSE given.RequestBuilder
        /\ crawler.config.ResponseHandler =
              IF given.ResponseHandler = "nil" THEN "DefaultResponseHandler"
              ELSE given.ResponseHandler
        /\ crawler.config.ErrorHandler =
              IF given.ErrorHandler = "nil" THEN "NoopErrorHandler"
              ELSE given.ErrorHandler
        /\ crawler.config.RedirectionPolicy =
              IF given.RedirectionPolicy.fn = "nil"
              THEN [fn |-> "DefaultRedirectionPolicy", maxRedirects |-> 3]
              ELSE given.RedirectionPolicy
        /\ crawler.config.WorkerCount >= 1
        /\ "nil" \notin {crawler.config.RequestBuilder, crawler.config.ResponseHandler,
                         crawler.config.ErrorHandler, crawler.config.RedirectionPolicy.fn}

C22_Witness ==
    /\ given.WorkerCount = -1
    /\ crawler.config.WorkerCount = 10
    /\ given.RequestBuilder = "caller"
    /\ crawler.config.RequestBuilder = "caller"
    /\ given.ErrorHandler = "nil"
    /\ crawler.config.ErrorHandler = "NoopErrorHandler"
    /\ given.RedirectionPolicy = SameDomainPolicy
    /\ crawler.config.RedirectionPolicy = SameDomainPolicy

\* C23 (as claimed): whatever Config.Client is (nil, a client with no
\* transport, with a standard transport, with a custom round-tripper), the
\* transport the engine uses after New has certificate verification disabled
C23_VerificationDisabled ==
    newCalls > 0 =>
        /\ crawler.client.Transport.type # "nil"
        /\ crawler.client.Transport.TLSClientConfig.set
        /\ crawler.client.Transport.TLSClientConfig.InsecureSkipVerify

\* ------------------------------------------------------------ repeated runs
\* C24: Run may be called repeatedly on one engine: Run and the processing of
\* URLs leave the configuration, the resolved user agent, the derived client
\* hint and the client with its transport unchanged; every Run starts with an
\* empty open queue, WorkerCount workers at the head of their loop and a
\* dispatcher at the start of the producer; and a later Run ends like a first
\* one whatever the earlier Run did: with nil only if every url of its
\* producer was processed, with nil whenever its token is live, with the
\* cancellation error only if its token is done
C24_RepeatedRuns ==
    /\ [][newCalls' = newCalls => (crawler' = crawler /\ given' = given)]_vars
    /\ [][runs' # runs =>
             /\ urlChan' = <<>>
             /\ chanClosed' = 0
             /\ pulled' = 0
             /\ dpc' = "range"
             /\ workers' = [s \in {AtSelect} |-> crawler.config.WorkerCount]
             /\ processed' = 0]_vars
    /\ []((runs > 1 /\ runState = "returned") =>
             /\ runErr \in {"nil", "canceled"}
             /\ runErr = "nil" => AllProcessed
             /\ token = "live" => runErr = "nil"
             /\ runErr = "canceled" => token = "canceled")
    /\ []((runs > 1 /\ runState = "running") =>
             /\ chanClosed <= 1
             /\ Len(urlChan) <= QueueFactor * crawler.config.WorkerCount
             /\ (token = "live" /\ NumAt("exited") > 0)
                   => (chanClosed > 0 /\ urlChan = <<>>))

C24_Witness ==
    /\ runs = MaxRuns
    /\ runs > 1
    /\ runState = "returned"
    /\ token = "live"
    /\ runErr = "nil"
    /\ urlGen.len = MaxURLs
    /\ AllProcessed
    /\ crawler.userAgent = <<"x">>

\* ------------------------------------------------------------ one worker
\* a call of processURL other than a call of the error handler
IsStep(ev) == ev[1] # "error"

\* the steps of processURL in the order of the code
StepOrder == <<"build", "send", "handle", "release">>

\* C25: for one url the steps happen in the order build, send, handle,
\* release on one worker: every call the worker has made carries the url it
\* holds, the body is released exactly once after the response handler has
\* returned, whether it failed or not, and never without a response; a
\* failed release is passed to the error handler with that url right away;
\* and a worker that holds a url goes on with that url only, until it has
\* released the body and processURL returns
C25_StepOrder ==
    /\ [](\A s \in Workers :
             LET steps == SelectSeq(s.calls, IsStep)
             IN  /\ Len(steps) <= Len(StepOrder)
                 /\ \A j \in DOMAIN steps : steps[j][1] = StepOrder[j]
                 /\ \A j \in DOMAIN s.calls : s.calls[j][2] = s.url
                 /\ s.pc \in {"select", "exited", "build"} => s.calls = <<>>
                 /\ s.pc = "send" => Len(steps) = 1
                 /\ s.pc = "handle" => Len(steps) = 2
                 /\ Cardinality(CallsOf(s.calls, "release"))
                       = Cardinality(CallsOf(s.calls, "handle"))
                 /\ \A j \in CallsOf(s.calls, "release") :
                       /\ \E i \in CallsOf(s.calls, "handle") : i < j
                       /\ \E i \in CallsOf(s.calls, "send") : s.calls[i][3] = "nil"
                       /\ s.calls[j][3] # "nil" =>
                             /\ j < Len(s.calls)
                             /\ s.calls[j + 1] = Ev("error", s.url, s.calls[j][3]))
    /\ [][\A s \in Workers :
             (s.pc \in {"build", "send", "handle"}
                 /\ CopiesIn(s, workers') < CopiesIn(s, workers))
                => \E t \in BagToSet(workers') :
                      /\ t.url = s.url
                      /\ Len(t.calls) > Len(s.calls)
                      /\ SubSeq(t.calls, 1, Len(s.calls)) = s.calls]_vars

C25_Witness ==
    \E s \in Finished :
        s.calls = <<Ev("build", s.url, "nil"), Ev("send", s.url, "nil"),
                    Ev("handle", s.url, "handler"), Ev("error", s.url, "handler"),
                    Ev("release", s.url, "release"), Ev("error", s.url, "release")>>

\* ------------------------------------------------------------ the queue
\* number of receives from the queue so far
TakenTotal ==
    LET RECURSIVE Sum(_)
        Sum(i) == IF i = 0 THEN 0 ELSE taken[i] + Sum(i - 1)
    IN  Sum(MaxURLs)

\* C26 (as claimed): the queue never holds more than 2 x WorkerCount urls,
\* and while it is full and the token is live the dispatcher pulls no
\* further item from the producer
C26_NoPullWhenFull ==
    /\ [](Len(urlChan) <= 2 * workerCount)
    /\ [][(Len(urlChan) = 2 * workerCount /\ token = "live")
             => pulled' = pulled]_vars

\* C26 (amended): the queue never holds more than 2 x WorkerCount urls; the
\* dispatcher is ahead of the workers by the urls in the queue and at most
\* one more, the item it has pulled and not yet placed; while it holds that
\* item it pulls nothing, and with the queue full and the token live it
\* neither places nor drops it
C26_Backpressure ==
    /\ [](/\ Len(urlChan) <= 2 * workerCount
          /\ pulled - TakenTotal - Len(urlChan) \in {0, 1}
          /\ dpc = "select" => pulled - TakenTotal - Len(urlChan) = 1
          /\ pulled <= TakenTotal + 2 * workerCount + 1)
    /\ [][dpc = "select" => pulled' = pulled]_vars
    /\ [][(dpc = "select" /\ Len(urlChan) = 2 * workerCount /\ token = "live")
             => (dpc' = dpc /\ Len(urlChan') <= Len(urlChan))]_vars

C26_Witness ==
    /\ runState = "running"
    /\ token = "live"
    /\ dpc = "select"
    /\ Len(urlChan) = 2 * workerCount
    /\ pulled = 2 * workerCount + 1
    /\ TakenTotal = 0

\* C27 (as claimed): the queue is closed at most once and only by the
\* dispatcher when it stops; nothing is placed into it once it is closed; the
\* dispatcher closes it when it finds the producer exhausted, and when it
\* looks at a cancelled token in its select; and a worker that finds the
\* queue closed and empty leaves its loop
C27_QueueClosedOnce ==
    /\ [](chanClosed <= 1)
    /\ [][chanClosed' # chanClosed => (dpc # "done" /\ dpc' = "done")]_vars
    /\ [][chanClosed > 0 => Len(urlChan') <= Len(urlChan)]_vars
    /\ [][(dpc = "range" /\ ~HasNext /\ dpc' # dpc) => chanClosed' = chanClosed + 1]_vars
    /\ [][(dpc = "select" /\ token = "canceled" /\ dpc' # dpc)
             => chanClosed' = chanClosed + 1]_vars
    /\ [][(chanClosed > 0 /\ urlChan = <<>>
              /\ CopiesIn(AtSelect, workers') < CopiesIn(AtSelect, workers))
             => CopiesIn(Exited, workers') > CopiesIn(Exited, workers)]_vars

\* ------------------------------------------------------------ end of a Run
\* C28 (as claimed): a Run is Running, then Draining (queue closed), then
\* Completed: whenever Run has returned, the dispatcher has stopped and the
\* queue is closed, also when the run ended by cancellation
C28_ClosedBeforeReturn ==
    runState = "returned" => (dpc = "done" /\ chanClosed = 1)

\* C29: Run returns only after all its workers have exited: once Run has
\* returned every worker has left its loop, and no request builder,
\* transport call, response handler or error handler is called any more
C29_ReturnAfterWorkers ==
    /\ [](runState = "returned" =>
             /\ Workers = {Exited}
             /\ CopiesIn(Exited, workers) = workerCount)
    /\ [][runState = "returned" =>
             /\ workers' = workers
             /\ builderCalls' = builderCalls
             /\ requestCount' = requestCount
             /\ handledCount' = handledCount
             /\ errorCount' = errorCount
             /\ processed' = processed]_vars

C29_Witness ==
    /\ runState = "returned"
    /\ workerCount = MaxWorkers
    /\ token = "canceled"
    /\ dpc = "select"
    /\ handledCount > 0
    /\ errorCount > 0
    /\ Workers = {Exited}

\* the workers that are processing a url: between the receive from the queue
\* and the return of processURL
Processing == {s \in Workers : s.pc \in {"build", "send", "handle", "return"}}

\* C30: a Run has exactly WorkerCount workers and each of them processes one
\* url at a time: at most WorkerCount urls are being processed, each by one
\* worker, so at most WorkerCount builder calls have not yet been followed by
\* the return of processURL
C30_WorkerCount ==
    runState # "constructed" =>
        /\ BagCardinality(workers) = workerCount
        /\ \A s \in Processing :
              /\ CopiesIn(s, workers) = 1
              /\ s.url \in 1..pulled
              /\ \A t \in Processing : t.url = s.url => t = s
        /\ Cardinality(Processing) <= workerCount
        /\ builderCalls - processed <= Cardinality(Processing)
        /\ Cardinality({s \in Workers : s.pc = "handle"}) <= workerCount

C30_Witness ==
    /\ runState = "running"
    /\ workerCount = MaxWorkers
    /\ Cardinality({s \in Workers : s.pc = "handle"}) = MaxWorkers
    /\ urlChan # <<>>

\* ------------------------------------------------------------ the items
\* the items waiting in the queue
Queued == {urlChan[j] : j \in DOMAIN urlChan}

\* the items some worker is processing
Held == {s.url : s \in Processing}

\* C31: the producer is consumed once per Run (the dispatcher ranges over it
\* once, item by item, and does not start again), every item it yields is
\* taken by at most one worker and processed at most once, no item is in two
\* places, and when Run has returned with a live token every item yielded
\* has been processed: an item is left unprocessed only under a cancelled
\* token
C31_EachItemOnce ==
    /\ [](/\ \A i \in 1..MaxURLs : taken[i] <= 1 /\ (taken[i] = 1 => i <= pulled)
          /\ \A j, k \in DOMAIN urlChan : urlChan[j] = urlChan[k] => j = k
          /\ \A i \in Queued : taken[i] = 0 /\ i <= pulled
          /\ \A i \in Held : taken[i] = 1
          /\ Queued \cap Held = {}
          /\ processed + Cardinality(Processing) = TakenTotal
          /\ \A s \in Processing : CopiesIn(s, workers) = 1
          /\ (runState = "returned" /\ \E i \in 1..pulled : taken[i] = 0)
                => token = "canceled"
          /\ (runState = "returned" /\ token = "live")
                => (processed = pulled /\ ~HasNext))
    /\ [][pulled' \in {pulled, pulled + 1}]_vars
    /\ [][dpc = "done" => (dpc' = "done" /\ pulled' = pulled)]_vars

C31_Witness ==
    /\ runState = "returned"
    /\ token = "canceled"
    /\ workerCount = MaxWorkers
    /\ pulled = MaxURLs
    /\ processed = 1
    /\ taken[1] = 1
    /\ taken[MaxURLs] = 0
    /\ MaxURLs \notin Queued

\* C32: in every reachable state of a Run the items pulled from the producer
\* exceed the urls whose processing has finished by at most
\* 3 x WorkerCount + 1: at most 2 x WorkerCount in the queue, at most
\* WorkerCount with the workers and at most one in the dispatcher's hand; for
\* finite and infinite producers
C32_BackpressureBound ==
    runState # "constructed" =>
        /\ pulled - processed <= 3 * workerCount + 1
        /\ Len(urlChan) <= 2 * workerCount
        /\ Cardinality(Processing) <= workerCount
        /\ pulled - processed - Len(urlChan) - Cardinality(Processing) \in {0, 1}

C32_Witness ==
    /\ runState = "running"
    /\ token = "live"
    /\ urlGen.infinite
    /\ workerCount = MaxWorkers
    /\ processed > 0
    /\ pulled - processed = 3 * workerCount + 1

\* the fetch runs under SameDomainRedirectionPolicy
UnderSameDomain == newCalls > 0 /\ crawler.client.CheckRedirect = SameDomainPolicy

C34_CallerUnchanged ==
    newCalls > 0 =>
        /\ caller.Client.CheckRedirect = given.Client.CheckRedirect
        /\ caller.Client.Transport.type = given.Client.Transport.type
        /\ caller.Client.Transport.TLSClientConfig
              = given.Client.Transport.TLSClientConfig

====
